---------------------------- MODULE Spec2Model ----------------------------
(***************************************************************************)
(* Market-basket pipeline of ItemRelationDSS:                              *)
(*   basket_df --generate_frequent_itemsets--> itemsets                    *)
(*             --generate_rules--> rules --search / If-Then lookup-->      *)
(* The two mining primitives the source calls (mlxtend fpgrowth and        *)
(* association_rules) are modelled at the call sites by what they compute. *)
(* Supports, confidences and lifts are exact rationals [n, d] in lowest    *)
(* terms (the code holds them as floats).                                  *)
(***************************************************************************)
EXTENDS Integers, Sequences, FiniteSets, TLC

\* ------------------------------------------------------------------ bounds
\* Largest number of transactions (rows) of an incidence matrix.
MaxRows == 3

\* Largest number of rows of a dataset file.
MaxFileRows == 2

\* ------------------------------------------------------------- vocabulary
\* Item labels are strings, held as sequences of characters so that the
\* display strings and the substring search can be computed.
Milk == <<"A", "b">>
Bread == <<"b">>
Eggs == <<"c">>

\* Column order of the non-empty incidence matrix (basket_df.columns).
Columns == <<Milk, Bread, Eggs>>

Range(s) == {s[i] : i \in 1..Len(s)}

\* -------------------------------------------------------------- rationals
RECURSIVE Gcd(_, _)
Gcd(a, b) == IF b = 0 THEN a ELSE Gcd(b, a % b)

Abs(x) == IF x < 0 THEN -x ELSE x

\* n/d in lowest terms with a positive denominator (d # 0).
Rat(n, d) ==
    LET g == Gcd(Abs(n), Abs(d))
        s == IF d < 0 THEN -1 ELSE 1
    IN [n |-> s * (n \div g), d |-> s * (d \div g)]

RatDiv(x, y) == Rat(x.n * y.d, x.d * y.n)

RatGeq(x, y) == x.n * y.d >= y.n * x.d

RatLt(x, y) == x.n * y.d < y.n * x.d

\* ----------------------------------------------------- sequence helpers
RECURSIVE Concat(_)
Concat(ss) == IF ss = <<>> THEN <<>> ELSE Head(ss) \o Concat(Tail(ss))

RECURSIVE SumOver(_, _)
SumOver(f(_), s) == IF s = <<>> THEN 0 ELSE f(Head(s)) + SumOver(f, Tail(s))

Reverse(s) == [i \in 1..Len(s) |-> s[Len(s) + 1 - i]]

IndexOf(s, x) == CHOOSE i \in 1..Len(s) : s[i] = x

Min(S) == CHOOSE x \in S : \A y \in S : x <= y

\* Stable insertion sort of a sequence by an integer key, ascending
\* (list.sort(key=...), ndarray.argsort on a handful of elements).
RECURSIVE SortByKey(_, _)
SortByKey(key(_), s) ==
    IF s = <<>> THEN <<>>
    ELSE LET rest == SortByKey(key, SubSeq(s, 1, Len(s) - 1))
             x == s[Len(s)]
             lo == SelectSeq(rest, LAMBDA y : key(y) <= key(x))
             hi == SelectSeq(rest, LAMBDA y : key(y) > key(x))
         IN lo \o <<x>> \o hi

\* ----------------------------------------------------------------- fpgrowth
\* An FP-tree is held as the transactions inserted into it: `branches` are
\* the inserted itemsets with their counts, `rank` lists the tree's items
\* by ascending count (an itemset is inserted most frequent item first),
\* `cond_items` is the suffix the tree is conditioned on.
BranchCount(tree, item) ==
    LET c(b) == IF item \in b.items THEN b.count ELSE 0
    IN SumOver(c, tree.branches)

\* The root-to-leaf path a branch is inserted along.
BranchPath(tree, b) == SelectSeq(Reverse(tree.rank), LAMBDA i : i \in b.items)

IsPrefix(p, q) == Len(p) <= Len(q) /\ SubSeq(q, 1, Len(p)) = p

\* FPTree.is_path: the root and every node have at most one child.
is_path(tree) ==
    \A i, j \in 1..Len(tree.branches) :
        LET p == BranchPath(tree, tree.branches[i])
            q == BranchPath(tree, tree.branches[j])
        IN IsPrefix(p, q) \/ IsPrefix(q, p)

\* setup_fptree: keep the items whose support count/N reaches min_support
\* (0/0 is NaN for an empty matrix: no item passes), rank them by support,
\* insert every row restricted to them.
setup_fptree(df, min_support) ==
    LET N == Len(df.data)
        cnt(item) == Cardinality({r \in 1..N : item \in df.data[r]})
        items == SelectSeq(df.columns,
                     LAMBDA i : N # 0 /\ RatGeq(Rat(cnt(i), N), min_support))
        kept == Range(items)
    IN [cond_items |-> <<>>,
        rank |-> SortByKey(cnt, items),
        branches |-> [r \in 1..N |-> [items |-> df.data[r] \cap kept, count |-> 1]]]

\* FPTree.conditional_tree: the prefix paths of cond_item, restricted to the
\* items that reach minsup among them, re-ranked by their count there.
conditional_tree(tree, cond_item, minsup) ==
    LET pos == IndexOf(tree.rank, cond_item)
        above == {tree.rank[k] : k \in (pos + 1)..Len(tree.rank)}
        with == SelectSeq(tree.branches, LAMBDA b : cond_item \in b.items)
        count(item) ==
            LET c(b) == IF item \in b.items THEN b.count ELSE 0
            IN SumOver(c, with)
        items == SelectSeq(tree.rank,
                     LAMBDA i : i \in above /\ count(i) > 0 /\ count(i) >= minsup)
        kept == Range(items)
    IN [cond_items |-> tree.cond_items \o <<cond_item>>,
        rank |-> SortByKey(count, items),
        branches |-> [k \in 1..Len(with) |->
                        [items |-> with[k].items \cap above \cap kept,
                         count |-> with[k].count]]]

\* itertools.combinations(items, i): the i-element subsets of a sequence of
\* distinct items, in lexicographic order of positions.
CombinationsOfSize(items, i) ==
    LET code(c) == SumOver(LAMBDA k : IF items[k] \in c THEN 2 ^ (Len(items) - k) ELSE 0,
                           [k \in 1..Len(items) |-> k])
        RECURSIVE setToSeq(_)
        setToSeq(S) ==
            IF S = {} THEN <<>>
            ELSE LET x == CHOOSE y \in S : \A z \in S : code(y) >= code(z)
                 IN <<x>> \o setToSeq(S \ {x})
    IN setToSeq({c \in SUBSET Range(items) : Cardinality(c) = i})

\* The combinations of sizes 1 .. size_remain - 1, smallest size first.
CombinationsUpTo(items, size_remain) ==
    Concat([i \in 1..(IF size_remain > 1 THEN size_remain - 1 ELSE 0)
              |-> CombinationsOfSize(items, i)])

\* fpg_step: the (support count, itemset) pairs the generator yields.
\* max_len = 0 stands for a falsy max_len (None or 0): no cap.
RECURSIVE fpg_step(_, _, _)
fpg_step(tree, minsup, max_len) ==
    LET items == tree.rank
        depth == Len(tree.cond_items)
        single(item) == [support |-> BranchCount(tree, item),
                         itemset |-> Range(tree.cond_items) \cup {item}]
        combo(c) == [support |-> Min({BranchCount(tree, i) : i \in c}),
                     itemset |-> Range(tree.cond_items) \cup c]
    IN IF is_path(tree)
       THEN LET size_remain == IF max_len # 0 THEN max_len - depth + 1
                               ELSE Len(items) + 1
                cs == CombinationsUpTo(items, size_remain)
            IN [k \in 1..Len(cs) |-> combo(cs[k])]
       ELSE IF max_len = 0 \/ max_len > depth
            THEN [k \in 1..Len(items) |-> single(items[k])]
                 \o Concat([k \in 1..Len(items) |->
                      fpg_step(conditional_tree(tree, items[k], minsup), minsup, max_len)])
            ELSE <<>>

\* math.ceil(min_support * len(df.index))
CeilMul(q, N) == -((-(q.n * N)) \div q.d)

\* mlxtend fpgrowth(df, min_support, use_colnames=True, max_len): raises
\* ValueError for min_support <= 0, else the frequent itemsets as rows
\* (support = count / N, itemsets).
fpgrowth(df, min_support, max_len) ==
    IF min_support.n <= 0
    THEN [status |-> "ValueError", rows |-> <<>>]
    ELSE LET N == Len(df.data)
             tree == setup_fptree(df, min_support)
             minsup == CeilMul(min_support, N)
             gen == fpg_step(tree, minsup, max_len)
         IN [status |-> "ok",
             rows |-> [k \in 1..Len(gen) |->
                         [support |-> Rat(gen[k].support, N),
                          itemsets |-> gen[k].itemset]]]

\* itemsets["itemset_length"] = itemsets["itemsets"].apply(len), done only
\* for a non-empty result (where every row gets the column).
WithItemsetLength(res) ==
    [status |-> res.status,
     rows |-> [k \in 1..Len(res.rows) |->
                 [support |-> res.rows[k].support,
                  itemsets |-> res.rows[k].itemsets,
                  itemset_length |-> Cardinality(res.rows[k].itemsets)]]]

\* Mutant: min_support is not passed on, fpgrowth falls back to its default 0.5.
generate_frequent_itemsets_DefaultSupport(basket_df, min_support, max_len) ==
    WithItemsetLength(fpgrowth(basket_df, Rat(1, 2), max_len))

\* Mutant: max_len is not passed on, fpgrowth falls back to its default None.
generate_frequent_itemsets_NoMaxLen(basket_df, min_support, max_len) ==
    WithItemsetLength(fpgrowth(basket_df, min_support, 0))

generate_frequent_itemsets(basket_df, min_support, max_len) ==
    WithItemsetLength(fpgrowth(basket_df, min_support, max_len))

\* ------------------------------------------------------ association_rules
\* The metrics of mlxtend's metric_dict that the pipeline reads.
Metrics == {"support", "confidence", "lift"}

Confidence(sAC, sA, sC) == RatDiv(sAC, sA)

\* Mutant: lift divides by the antecedent's support.
Lift_OverAntecedent(sAC, sA, sC) == RatDiv(Confidence(sAC, sA, sC), sA)

Lift(sAC, sA, sC) == RatDiv(Confidence(sAC, sA, sC), sC)

Score(metric, sAC, sA, sC) ==
    CASE metric = "support" -> sAC
      [] metric = "confidence" -> Confidence(sAC, sA, sC)
      [] metric = "lift" -> Lift(sAC, sA, sC)

\* Mutant: the consequent is the whole itemset.
Consequent_WholeItemset(k, antecedent) == k

Consequent(k, antecedent) == k \ antecedent

\* frequent_items_dict: itemset -> support (a later row overwrites an earlier).
HasKey(rows, s) == \E k \in 1..Len(rows) : rows[k].itemsets = s

SupportOf(rows, s) ==
    LET last == CHOOSE k \in 1..Len(rows) :
                    /\ rows[k].itemsets = s
                    /\ \A j \in (k + 1)..Len(rows) : rows[j].itemsets # s
    IN rows[last].support

\* Every (itemset, antecedent) split, in the order of the loops: itemsets in
\* row order, antecedent sizes from len(k) - 1 down to 1, combinations of the
\* frozenset in its iteration order.
Candidates(rows, order) ==
    LET splits(k) ==
            LET elems == SelectSeq(order, LAMBDA i : i \in k)
                n == Cardinality(k)
            IN Concat([j \in 1..(IF n > 1 THEN n - 1 ELSE 0) |->
                         LET cs == CombinationsOfSize(elems, n - j)
                         IN [m \in 1..Len(cs) |->
                               [itemset |-> k,
                                antecedents |-> cs[m],
                                consequents |-> Consequent(k, cs[m])]]])
    IN Concat([r \in 1..Len(rows) |-> splits(rows[r].itemsets)])

\* mlxtend association_rules(df, metric, min_threshold): ValueError for an
\* empty df or an unknown metric, KeyError when an antecedent or consequent
\* is not among the itemsets, else the rules whose metric reaches the
\* threshold, with their supports looked up in df.
association_rules(rows, metric, min_threshold, order) ==
    IF Len(rows) = 0 \/ metric \notin Metrics
    THEN [status |-> "ValueError", rows |-> <<>>]
    ELSE LET cand == Candidates(rows, order)
             known(c) == HasKey(rows, c.antecedents) /\ HasKey(rows, c.consequents)
             rule(c) ==
                 LET sAC == SupportOf(rows, c.itemset)
                     sA == SupportOf(rows, c.antecedents)
                     sC == SupportOf(rows, c.consequents)
                 IN [antecedents |-> c.antecedents,
                     consequents |-> c.consequents,
                     antecedent_support |-> sA,
                     consequent_support |-> sC,
                     support |-> sAC,
                     confidence |-> Confidence(sAC, sA, sC),
                     lift |-> Lift(sAC, sA, sC)]
             passes(c) ==
                 RatGeq(Score(metric, SupportOf(rows, c.itemset),
                              SupportOf(rows, c.antecedents),
                              SupportOf(rows, c.consequents)), min_threshold)
         IN IF \E k \in 1..Len(cand) : ~known(cand[k])
            THEN [status |-> "KeyError", rows |-> <<>>]
            ELSE LET kept == SelectSeq(cand, passes)
                 IN [status |-> "ok", rows |-> [k \in 1..Len(kept) |-> rule(kept[k])]]

\* ----------------------------------------------------------- generate_rules
\* Mutant: the secondary filter is strict (confidence > min_confidence).
SecondaryFilter_Strict(rows, min_confidence) ==
    IF min_confidence = <<>> THEN rows
    ELSE SelectSeq(rows, LAMBDA r : ~RatGeq(min_confidence[1], r.confidence))

\* rules[rules["confidence"] >= min_confidence]; min_confidence is <<>>
\* for None and <<c>> for a number c.
SecondaryFilter(rows, min_confidence) ==
    IF min_confidence = <<>> THEN rows
    ELSE SelectSeq(rows, LAMBDA r : RatGeq(r.confidence, min_confidence[1]))

Sep == <<",", " ">>

\* ', '.join(list(x)) for a frozenset x of labels iterated in `order`.
JoinStr(x, order) ==
    LET elems == SelectSeq(order, LAMBDA i : i \in x)
    IN Concat([k \in 1..Len(elems) |-> IF k = 1 THEN elems[k] ELSE Sep \o elems[k]])

WithStrings(rows, order) ==
    [k \in 1..Len(rows) |->
        [antecedents |-> rows[k].antecedents,
         consequents |-> rows[k].consequents,
         antecedent_support |-> rows[k].antecedent_support,
         consequent_support |-> rows[k].consequent_support,
         support |-> rows[k].support,
         confidence |-> rows[k].confidence,
         lift |-> rows[k].lift,
         antecedents_str |-> JoinStr(rows[k].antecedents, order),
         consequents_str |-> JoinStr(rows[k].consequents, order)]]

\* Mutant: the sorted frame is discarded (sort_values without assignment).
SortByLift_Discarded(rows) == rows

\* sort_values("lift", ascending=False). Rows of equal lift are left in an
\* order the sort does not promise; they are kept in their incoming order.
RECURSIVE SortByLift(_)
SortByLift(rows) ==
    IF rows = <<>> THEN <<>>
    ELSE LET rest == SortByLift(SubSeq(rows, 1, Len(rows) - 1))
             x == rows[Len(rows)]
             before == SelectSeq(rest, LAMBDA y : RatGeq(y.lift, x.lift))
             after == SelectSeq(rest, LAMBDA y : RatLt(y.lift, x.lift))
         IN before \o <<x>> \o after

Empty == [status |-> "ok", rows |-> <<>>]

\* Mutant: no early return for an empty itemset collection.
generate_rules_NoEmptyGuard(itemset_rows, metric, min_threshold, min_confidence, order) ==
    LET res == association_rules(itemset_rows, metric, min_threshold, order)
    IN IF res.status # "ok" THEN res
       ELSE IF Len(res.rows) = 0 THEN Empty
       ELSE LET kept == SecondaryFilter(res.rows, min_confidence)
            IN IF Len(kept) = 0 THEN Empty
               ELSE [status |-> "ok",
                     rows |-> SortByLift(WithStrings(kept, order))]

generate_rules(itemset_rows, metric, min_threshold, min_confidence, order) ==
    IF Len(itemset_rows) = 0 THEN Empty
    ELSE LET res == association_rules(itemset_rows, metric, min_threshold, order)
         IN IF res.status # "ok" THEN res
            ELSE IF Len(res.rows) = 0 THEN Empty
            ELSE LET kept == SecondaryFilter(res.rows, min_confidence)
                 IN IF Len(kept) = 0 THEN Empty
                    ELSE [status |-> "ok",
                          rows |-> SortByLift(WithStrings(kept, order))]

\* ------------------------------------------------------------- queries
\* Lower-case form of a character (the labels and keywords use A, B, C).
Lower(ch) ==
    CASE ch = "A" -> "a"
      [] ch = "B" -> "b"
      [] ch = "C" -> "c"
      [] OTHER -> ch

\* Series.str.contains(pat, case=False) on one string, for a pattern without
\* regular-expression metacharacters: pat occurs in s, case ignored.
str_contains(s, pat) ==
    \E i \in 0..(Len(s) - Len(pat)) :
        \A j \in 1..Len(pat) : Lower(s[i + j]) = Lower(pat[j])

\* The mask both search filters build.
SearchMask(r, keyword) ==
    str_contains(r.antecedents_str, keyword) \/ str_contains(r.consequents_str, keyword)

filter_rules_by_product(rule_rows, product_name) ==
    IF Len(rule_rows) = 0 THEN [status |-> "ok", rows |-> rule_rows]
    ELSE [status |-> "ok",
          rows |-> SelectSeq(rule_rows, LAMBDA r : SearchMask(r, product_name))]

\* render_analysis_ui, its filter: a falsy search_term filters nothing; an
\* empty selection ends in a warning.
render_analysis_ui(rule_rows, search_term) ==
    LET display_rules ==
            IF search_term # <<>>
            THEN SelectSeq(rule_rows, LAMBDA r : SearchMask(r, search_term))
            ELSE rule_rows
    IN [status |-> IF Len(display_rules) = 0 THEN "warning" ELSE "ok",
        rows |-> display_rules]

\* Mutant: the simulator matches as the search does, by substring.
simulator_Substring(rule_rows, selected_item) ==
    LET recs == SelectSeq(rule_rows,
                    LAMBDA r : str_contains(r.antecedents_str, selected_item))
    IN IF Len(recs) # 0
       THEN [status |-> "ok", rows |-> SortByLift(recs)]
       ELSE [status |-> "info", rows |-> recs]

\* The If-Then simulator: the rules whose antecedent string is the selected
\* item, sorted by lift when there are any.
simulator(rule_rows, selected_item) ==
    LET recs == SelectSeq(rule_rows, LAMBDA r : r.antecedents_str = selected_item)
    IN IF Len(recs) # 0
       THEN [status |-> "ok", rows |-> SortByLift(recs)]
       ELSE [status |-> "info", rows |-> recs]

\* ------------------------------------------------------------ preprocess
\* The datasets the two entry points name (app.py DATA_PATH, main.py DATA_PATH).
Paths == {"Dataset/Assignment-1_Data.csv", "Dataset/Retail_Transactions_Dataset.csv"}

\* A (df, basket_df) pair; NoPair stands where there is none.
NoPair == [df |-> <<>>, basket_df |-> [columns |-> <<>>, data |-> <<>>]]

NoCacheFile == [exists |-> FALSE, value |-> NoPair]

\* load_dataset: pd.read_csv raises FileNotFoundError for a missing file.
load_dataset(fs, path) ==
    IF fs[path].exists
    THEN [status |-> "ok", df |-> fs[path]]
    ELSE [status |-> "FileNotFoundError", df |-> fs[path]]

\* clean_data: a file without the expected columns raises KeyError; rows with
\* an empty basket are dropped. Of the columns only Product is modelled.
clean_data(df) ==
    IF df.schema_ok
    THEN [status |-> "ok", rows |-> SelectSeq(df.rows, LAMBDA b : b # {})]
    ELSE [status |-> "KeyError", rows |-> <<>>]

\* create_basket_dataset: one column per distinct item, in sorted order; one
\* row per transaction.
create_basket_dataset(rows) ==
    [columns |-> SelectSeq(Columns, LAMBDA i : \E k \in 1..Len(rows) : i \in rows[k]),
     data |-> rows]

\* Mutant: force_reload is not consulted, an existing cache file is always read.
full_preprocessing_IgnoresForce(fs, cache_file, path, force_reload) ==
    IF cache_file.exists
    THEN [status |-> "returned", value |-> cache_file.value,
          loaded |-> FALSE, cache |-> cache_file]
    ELSE LET raw == load_dataset(fs, path)
             df == clean_data(raw.df)
             pair == [df |-> df.rows, basket_df |-> create_basket_dataset(df.rows)]
         IN IF raw.status # "ok"
            THEN [status |-> raw.status, value |-> NoPair,
                  loaded |-> TRUE, cache |-> cache_file]
            ELSE IF df.status # "ok"
            THEN [status |-> df.status, value |-> NoPair,
                  loaded |-> TRUE, cache |-> cache_file]
            ELSE [status |-> "returned", value |-> pair,
                  loaded |-> TRUE, cache |-> [exists |-> TRUE, value |-> pair]]

\* full_preprocessing(path, force_reload): the outcome of the call, whether
\* load_dataset ran, and the cache file after it.
full_preprocessing(fs, cache_file, path, force_reload) ==
    IF ~force_reload /\ cache_file.exists
    THEN [status |-> "returned", value |-> cache_file.value,
          loaded |-> FALSE, cache |-> cache_file]
    ELSE LET raw == load_dataset(fs, path)
             df == clean_data(raw.df)
             pair == [df |-> df.rows, basket_df |-> create_basket_dataset(df.rows)]
         IN IF raw.status # "ok"
            THEN [status |-> raw.status, value |-> NoPair,
                  loaded |-> TRUE, cache |-> cache_file]
            ELSE IF df.status # "ok"
            THEN [status |-> df.status, value |-> NoPair,
                  loaded |-> TRUE, cache |-> cache_file]
            ELSE [status |-> "returned", value |-> pair,
                  loaded |-> TRUE, cache |-> [exists |-> TRUE, value |-> pair]]

\* ------------------------------------------------------------- state
VARIABLES
    basket_df,   \* the boolean incidence matrix: [columns, data]
    hash_order,  \* iteration order of the frozensets of item labels
    pc,          \* position in the pipeline
    mine_args,   \* arguments of the generate_frequent_itemsets call
    itemsets,    \* its outcome: [status, rows]
    rule_args,   \* arguments of the generate_rules call
    rules,       \* its outcome: [status, rows]
    query,       \* the search keyword or the selected item
    found,       \* the outcome of the query: [status, rows]
    files,       \* the dataset files on disk: path -> [exists, schema_ok, rows]
    cache,       \* cache/processed_data_sparse.pkl: [exists, value]
    last_call    \* the last full_preprocessing call and its outcome

cache_vars == <<files, cache, last_call>>

vars == <<basket_df, hash_order, pc, mine_args, itemsets, rule_args, rules, query, found,
          files, cache, last_call>>

NoCall == [status |-> "none", rows |-> <<>>]

\* A row of the matrix as a number, its columns as bits.
RowCode(row) ==
    SumOver(LAMBDA k : IF Columns[k] \in row THEN 2 ^ (k - 1) ELSE 0,
            [k \in 1..Len(Columns) |-> k])

\* The matrices of at most MaxRows rows over the columns. The miner only
\* counts rows, so one row order per multiset of rows is enumerated.
Matrices(columns) ==
    UNION {{[columns |-> columns, data |-> d] :
              d \in {e \in [1..n -> SUBSET Range(columns)] :
                       \A i \in 1..(n - 1) : RowCode(e[i]) <= RowCode(e[i + 1])}} :
           n \in 0..MaxRows}

HashOrders == {Columns, Reverse(Columns)}

NoFile == [exists |-> FALSE, schema_ok |-> FALSE, rows |-> <<>>]

NoPreprocessing ==
    [called |-> FALSE, path |-> "", force_reload |-> FALSE,
     cache_before |-> NoCacheFile, status |-> "none", value |-> NoPair, loaded |-> FALSE]

Init ==
    /\ basket_df \in Matrices(Columns) \cup Matrices(<<>>)
    /\ hash_order \in HashOrders
    /\ pc = "loaded"
    /\ mine_args = <<>>
    /\ itemsets = NoCall
    /\ rule_args = <<>>
    /\ rules = NoCall
    /\ query = <<>>
    /\ found = NoCall
    /\ files = [p \in Paths |-> NoFile]
    /\ cache = NoCacheFile
    /\ last_call = NoPreprocessing

\* min_support values a caller may pass: 0 and 3/2 lie outside (0, 1].
MinSupports == {Rat(0, 1), Rat(1, 3), Rat(1, 2), Rat(2, 3), Rat(1, 1), Rat(3, 2)}

\* max_len values a caller may pass: 0 lies below 1.
MaxLens == 0..3

\* app.py step 2 / main.py step 2: mine the matrix.
MineStep(supports, lens) ==
    /\ pc = "loaded"
    /\ \E min_support \in supports, max_len \in lens :
         LET res == generate_frequent_itemsets(basket_df, min_support, max_len)
         IN /\ mine_args' = [min_support |-> min_support, max_len |-> max_len]
            /\ itemsets' = res
            /\ pc' = IF res.status = "ok" THEN "mined" ELSE "mine_failed"
    /\ UNCHANGED <<basket_df, hash_order, rule_args, rules, query, found>>
    /\ UNCHANGED cache_vars

MineAny == MineStep(MinSupports, MaxLens)

\* Mining calls with parameters in range, as the dashboard's sliders give.
MineValid == MineStep({Rat(1, 3), Rat(1, 2), Rat(2, 3)}, {1, 2, 3})

\* metric values a caller may pass: "bogus" names no metric.
RuleMetrics == {"lift", "confidence", "support", "bogus"}

Thresholds == {Rat(1, 2), Rat(1, 1), Rat(3, 2)}

\* min_confidence values a caller may pass: None, and 3/2 lies outside [0, 1].
MinConfidences == {<<>>, <<Rat(1, 2)>>, <<Rat(1, 1)>>, <<Rat(3, 2)>>}

\* app.py step 3 / main.py step 3: derive the rules from the itemsets.
GenerateStep(metrics, thresholds, confidences) ==
    /\ pc = "mined"
    /\ \E metric \in metrics, min_threshold \in thresholds, min_confidence \in confidences :
         LET res == generate_rules(itemsets.rows, metric, min_threshold,
                                   min_confidence, hash_order)
         IN /\ rule_args' = [metric |-> metric, min_threshold |-> min_threshold,
                             min_confidence |-> min_confidence]
            /\ rules' = res
            /\ pc' = IF res.status = "ok" THEN "ruled" ELSE "rules_failed"
    /\ UNCHANGED <<basket_df, hash_order, mine_args, itemsets, query, found>>
    /\ UNCHANGED cache_vars

GenerateAny == GenerateStep(RuleMetrics, Thresholds, MinConfidences)

\* Search keywords: empty, inside one label (in either case), the
\* separator of the display string, text spanning two labels, and no match.
Keywords ==
    {<<>>, <<"a">>, <<"B">>, <<",">>, <<"b", ",", " ", "c">>, <<"x">>}

\* market_basket.filter_rules_by_product on the rules.
SearchStep ==
    /\ pc = "ruled"
    /\ \E keyword \in Keywords :
         /\ query' = [kind |-> "filter_rules_by_product", arg |-> keyword]
         /\ found' = filter_rules_by_product(rules.rows, keyword)
    /\ pc' = "queried"
    /\ UNCHANGED <<basket_df, hash_order, mine_args, itemsets, rule_args, rules>>
    /\ UNCHANGED cache_vars

\* app.py line 138: reached only with a non-empty rule collection.
RenderStep ==
    /\ pc = "ruled"
    /\ Len(rules.rows) # 0
    /\ \E search_term \in Keywords :
         /\ query' = [kind |-> "render_analysis_ui", arg |-> search_term]
         /\ found' = render_analysis_ui(rules.rows, search_term)
    /\ pc' = "queried"
    /\ UNCHANGED <<basket_df, hash_order, mine_args, itemsets, rule_args, rules>>
    /\ UNCHANGED cache_vars

\* app.py lines 145-166: reached only with a non-empty rule collection; the
\* select box offers the columns of the matrix.
SimulatorStep ==
    /\ pc = "ruled"
    /\ Len(rules.rows) # 0
    /\ \E selected_item \in Range(basket_df.columns) :
         /\ query' = [kind |-> "simulator", arg |-> selected_item]
         /\ found' = simulator(rules.rows, selected_item)
    /\ pc' = "queried"
    /\ UNCHANGED <<basket_df, hash_order, mine_args, itemsets, rule_args, rules>>
    /\ UNCHANGED cache_vars

\* The dashboard's own calls: parameters in range, the lift metric.
MineDashboard == MineStep({Rat(1, 3)}, {2, 3})

GenerateDashboard ==
    GenerateStep({"lift"}, {Rat(1, 2), Rat(1, 1)}, {<<>>, <<Rat(1, 2)>>})

\* The baskets a dataset row may hold.
FileBaskets == {{}, {Milk}, {Milk, Bread}}

\* What a path may hold: no file, a file without the expected columns, or a
\* dataset of at most MaxFileRows rows.
FileContents ==
    {NoFile, [exists |-> TRUE, schema_ok |-> FALSE, rows |-> <<>>]}
    \cup UNION {{[exists |-> TRUE, schema_ok |-> TRUE, rows |-> r] :
                   r \in [1..n -> FileBaskets]} : n \in 0..MaxFileRows}

\* Before the first full_preprocessing call: no cache file yet.
InitCache ==
    /\ files \in [Paths -> FileContents]
    /\ cache = NoCacheFile
    /\ last_call = NoPreprocessing
    /\ basket_df = NoPair.basket_df
    /\ hash_order = Columns
    /\ pc = "preprocess"
    /\ mine_args = <<>>
    /\ itemsets = NoCall
    /\ rule_args = <<>>
    /\ rules = NoCall
    /\ query = <<>>
    /\ found = NoCall

\* One call of preprocess.full_preprocessing (app.py get_data, main.py); a
\* call that returns hands its basket_df to the caller.
PreprocessStep ==
    /\ pc = "preprocess"
    /\ \E path \in Paths, force_reload \in BOOLEAN :
         LET res == full_preprocessing(files, cache, path, force_reload)
         IN /\ cache' = res.cache
            /\ last_call' = [called |-> TRUE, path |-> path,
                             force_reload |-> force_reload, cache_before |-> cache,
                             status |-> res.status, value |-> res.value,
                             loaded |-> res.loaded]
            /\ basket_df' = IF res.status = "returned" THEN res.value.basket_df
                            ELSE basket_df
    /\ UNCHANGED <<files, hash_order, pc, mine_args, itemsets, rule_args, rules,
                   query, found>>

NextCache == PreprocessStep

SpecCache == InitCache /\ [][NextCache]_vars

NextMiner == MineAny

SpecMiner == Init /\ [][NextMiner]_vars

NextRules == MineValid \/ GenerateAny

SpecRules == Init /\ [][NextRules]_vars

NextQuery ==
    MineDashboard \/ GenerateDashboard \/ SearchStep \/ RenderStep \/ SimulatorStep

SpecQuery == Init /\ [][NextQuery]_vars

\* ------------------------------------------------------ claims: miner
\* Number of rows of the matrix that contain every item of s.
RowsContaining(s) ==
    Cardinality({r \in 1..Len(basket_df.data) : s \subseteq basket_df.data[r]})

ValidSupport(q) == q.n > 0 /\ q.n <= q.d

\* The itemsets a check of every subset of the columns finds frequent.
BruteForce(min_support, max_len) ==
    {s \in SUBSET Range(basket_df.columns) :
        /\ s # {}
        /\ Cardinality(s) <= max_len
        /\ Len(basket_df.data) > 0
        /\ RowsContaining(s) * min_support.d >= min_support.n * Len(basket_df.data)}

C2_MaxLenRespected ==
    (pc = "mined" /\ mine_args.max_len >= 1) =>
        \A k \in 1..Len(itemsets.rows) :
            /\ Cardinality(itemsets.rows[k].itemsets) <= mine_args.max_len
            /\ itemsets.rows[k].itemset_length <= mine_args.max_len

\* A call capped at 2 on a matrix where a 3-item set is frequent.
C2_Witness ==
    /\ pc = "mined"
    /\ mine_args.max_len = 2
    /\ ValidSupport(mine_args.min_support)
    /\ BruteForce(mine_args.min_support, 3) # BruteForce(mine_args.min_support, 2)
    /\ \E k \in 1..Len(itemsets.rows) : itemsets.rows[k].itemset_length = 2

\* ------------------------------------------------------ claims: rules
RuleCallDone == pc \in {"ruled", "rules_failed"}

RatEq(x, y) == x.n * y.d = y.n * x.d

RatMul(x, y) == [n |-> x.n * y.n, d |-> x.d * y.d]

\* The support the input itemsets carry for s.
Carried(s) ==
    LET k == CHOOSE j \in 1..Len(itemsets.rows) : itemsets.rows[j].itemsets = s
    IN itemsets.rows[k].support

\* C3: every returned rule has confidence * support(antecedent) =
\* support(antecedent + consequent) and lift * support(consequent) =
\* confidence, the supports being those of the input itemsets.
C3_ConfidenceAndLift ==
    pc = "ruled" =>
        \A k \in 1..Len(rules.rows) :
            LET r == rules.rows[k]
            IN /\ RatEq(RatMul(r.confidence, Carried(r.antecedents)),
                        Carried(r.antecedents \cup r.consequents))
               /\ RatEq(RatMul(r.lift, Carried(r.consequents)), r.confidence)

\* A rule whose confidence and lift are neither 1 nor equal to each other.
C3_Witness ==
    /\ pc = "ruled"
    /\ \E k \in 1..Len(rules.rows) :
         /\ rules.rows[k].confidence = Rat(1, 2)
         /\ rules.rows[k].lift = Rat(3, 2)

\* C4: every returned rule has a non-empty antecedent and consequent that
\* are disjoint, their union is one of the input itemsets, and the rule's
\* support is the support that itemset carries.
C4_RuleSplitsItemset ==
    pc = "ruled" =>
        \A k \in 1..Len(rules.rows) :
            LET r == rules.rows[k]
            IN /\ r.antecedents # {}
               /\ r.consequents # {}
               /\ r.antecedents \cap r.consequents = {}
               /\ \E j \in 1..Len(itemsets.rows) :
                    /\ itemsets.rows[j].itemsets = r.antecedents \cup r.consequents
                    /\ itemsets.rows[j].support = r.support

\* A rule with a two-item antecedent, split off a three-item itemset.
C4_Witness ==
    /\ pc = "ruled"
    /\ \E k \in 1..Len(rules.rows) :
         /\ Cardinality(rules.rows[k].antecedents) = 2
         /\ rules.rows[k].support = Rat(1, 3)

\* C5: the rules returned with min_confidence = c are exactly the rules
\* returned with min_confidence = None whose confidence is >= c, each with
\* the same antecedent, consequent, support, confidence and lift.
C5_SecondaryFilter ==
    (pc = "ruled" /\ rule_args.min_confidence # <<>>) =>
        LET base == generate_rules(itemsets.rows, rule_args.metric,
                                   rule_args.min_threshold, <<>>, hash_order)
        IN /\ base.status = "ok"
           /\ Range(rules.rows) =
                {r \in Range(base.rows) :
                    r.confidence.n * rule_args.min_confidence[1].d
                      >= rule_args.min_confidence[1].n * r.confidence.d}

\* A call on the lift metric where min_confidence removed a rule that had
\* passed the lift threshold and kept another.
C5_Witness ==
    /\ pc = "ruled"
    /\ rule_args.metric = "lift"
    /\ rule_args.min_confidence = <<Rat(1, 1)>>
    /\ Len(rules.rows) > 0
    /\ Len(rules.rows) <
         Len(generate_rules(itemsets.rows, "lift", rule_args.min_threshold,
                            <<>>, hash_order).rows)

\* C6: the returned rules are in descending order of lift.
C6_SortedByLift ==
    pc = "ruled" =>
        \A k \in 1..(Len(rules.rows) - 1) :
            rules.rows[k].lift.n * rules.rows[k + 1].lift.d
              >= rules.rows[k + 1].lift.n * rules.rows[k].lift.d

\* A result holding rules of different lifts that were generated in
\* ascending order of lift.
C6_Witness ==
    /\ pc = "ruled"
    /\ Len(rules.rows) >= 2
    /\ rules.rows[1].lift # rules.rows[Len(rules.rows)].lift
    /\ LET gen == association_rules(itemsets.rows, rule_args.metric,
                                    rule_args.min_threshold, hash_order).rows
       IN \E i, j \in 1..Len(gen) : i < j /\ RatLt(gen[i].lift, gen[j].lift)

\* ---------------------------------------------------- claims: parameters
ValidConfidence(c) == c = <<>> \/ (c[1].n >= 0 /\ c[1].n <= c[1].d)

\* C7: a call with min_support outside (0, 1], max_len < 1, an unknown
\* metric or min_confidence outside [0, 1] ends in an error, never in a
\* normal result.
C7_InvalidParameterIsError ==
    /\ (pc # "loaded" /\ (~ValidSupport(mine_args.min_support) \/ mine_args.max_len < 1))
          => itemsets.status # "ok"
    /\ (RuleCallDone /\ (rule_args.metric \notin Metrics
                          \/ ~ValidConfidence(rule_args.min_confidence)))
          => rules.status # "ok"

NoItemFrequent ==
    \/ Len(basket_df.data) = 0
    \/ \A i \in Range(basket_df.columns) :
         RowsContaining({i}) * mine_args.min_support.d
           < mine_args.min_support.n * Len(basket_df.data)

\* No split of an input itemset reaches the metric threshold.
NoRulePasses ==
    \A j \in 1..Len(itemsets.rows) :
        \A a \in SUBSET itemsets.rows[j].itemsets :
            (a # {} /\ a # itemsets.rows[j].itemsets) =>
                LET sAC == itemsets.rows[j].support
                    conf == RatDiv(sAC, Carried(a))
                    lift == RatDiv(conf, Carried(itemsets.rows[j].itemsets \ a))
                    score == CASE rule_args.metric = "support" -> sAC
                               [] rule_args.metric = "confidence" -> conf
                               [] rule_args.metric = "lift" -> lift
                IN RatLt(score, rule_args.min_threshold)

\* No split that reaches the threshold has confidence >= min_confidence.
NoRuleConfident ==
    /\ rule_args.min_confidence # <<>>
    /\ \A j \in 1..Len(itemsets.rows) :
         \A a \in SUBSET itemsets.rows[j].itemsets :
            (a # {} /\ a # itemsets.rows[j].itemsets) =>
                RatLt(RatDiv(itemsets.rows[j].support, Carried(a)),
                      rule_args.min_confidence[1])

\* C8: with valid parameters both calls end normally, and with an empty
\* result when no item meets min_support, when the matrix has no rows or no
\* columns, when there are no itemsets or none of two or more items, when no
\* rule meets the threshold and when no rule meets min_confidence.
C8_EmptyIsNotAnError ==
    /\ (pc # "loaded" /\ ValidSupport(mine_args.min_support) /\ mine_args.max_len >= 1)
          => /\ itemsets.status = "ok"
             /\ (NoItemFrequent \/ Len(basket_df.columns) = 0)
                   => itemsets.rows = <<>>
    /\ (RuleCallDone /\ rule_args.metric \in Metrics
                     /\ ValidConfidence(rule_args.min_confidence))
          => /\ rules.status = "ok"
             /\ (\/ Len(itemsets.rows) = 0
                 \/ \A j \in 1..Len(itemsets.rows) : itemsets.rows[j].itemset_length < 2
                 \/ NoRulePasses
                 \/ NoRuleConfident)
                   => rules.rows = <<>>

\* A rule call on an empty itemset collection, mined from a matrix with rows.
C8_Witness ==
    /\ RuleCallDone
    /\ rule_args.metric \in Metrics
    /\ ValidConfidence(rule_args.min_confidence)
    /\ Len(basket_df.data) > 0
    /\ Len(itemsets.rows) = 0
    /\ rules.rows = <<>>

\* ------------------------------------------------------ claims: queries
\* The keyword occurs, case ignored, in the label of one item of the rule.
MatchesAnItem(r, keyword) ==
    \E item \in r.antecedents \cup r.consequents : str_contains(item, keyword)

\* C9: a search returns exactly the rules with an item whose label holds
\* the keyword (case ignored), unmodified and in their lift-descending
\* order; the empty keyword returns every rule.
C9_SearchMatchesItemLabels ==
    (pc = "queried" /\ query.kind \in {"filter_rules_by_product", "render_analysis_ui"}) =>
        found.rows = SelectSeq(rules.rows, LAMBDA r : MatchesAnItem(r, query.arg))

IsSortedByLift(rows) ==
    \A k \in 1..(Len(rows) - 1) :
        rows[k].lift.n * rows[k + 1].lift.d >= rows[k + 1].lift.n * rows[k].lift.d

Reprocessed ==
    LET rows == SelectSeq(files[last_call.path].rows, LAMBDA b : b # {})
    IN [df |-> rows,
        basket_df |->
            [columns |-> SelectSeq(Columns, LAMBDA i : \E k \in 1..Len(rows) : i \in rows[k]),
             data |-> rows]]

Processable == files[last_call.path].exists /\ files[last_call.path].schema_ok

\* The call had to read the cache: force_reload = False and a cache file.
ServedFromCache == ~last_call.force_reload /\ last_call.cache_before.exists

\* Once written the cache is read by every call with force_reload = False,
\* whatever its path: the cached pair comes back, nothing is loaded, and the
\* cache file stays.
CacheIsServed ==
    (last_call.called /\ ServedFromCache) =>
        /\ last_call.status = "returned"
        /\ last_call.value = last_call.cache_before.value
        /\ ~last_call.loaded
        /\ cache = last_call.cache_before

\* C11 as stated: CacheIsServed, and a call with force_reload = True or made
\* without a cache file always reprocesses its path and overwrites the cache
\* with the new result.
C11_AlwaysOverwrites ==
    /\ CacheIsServed
    /\ (last_call.called /\ ~ServedFromCache) =>
          /\ last_call.loaded
          /\ last_call.status = "returned"
          /\ last_call.value = Reprocessed
          /\ cache = [exists |-> TRUE, value |-> Reprocessed]

\* C11 amended: CacheIsServed, and a call with force_reload = True or made
\* without a cache file always loads its path; when the dataset loads and
\* processes it returns the new result and overwrites the cache with it, and
\* otherwise it raises and leaves the cache as it was.
C11_CacheProtocol ==
    /\ CacheIsServed
    /\ (last_call.called /\ ~ServedFromCache) =>
          /\ last_call.loaded
          /\ IF Processable
             THEN /\ last_call.status = "returned"
                  /\ last_call.value = Reprocessed
                  /\ cache = [exists |-> TRUE, value |-> Reprocessed]
             ELSE /\ last_call.status \in {"FileNotFoundError", "KeyError"}
                  /\ cache = last_call.cache_before

\* A call with force_reload = False that returned the pair cached from the
\* other path, although its own path processes to a different pair.
C11_Witness ==
    /\ last_call.called
    /\ ServedFromCache
    /\ Processable
    /\ last_call.value # Reprocessed
    /\ Len(last_call.value.df) > 0
    /\ cache.value = last_call.value

=============================================================================
